---- MODULE Spec2Model ----
(***************************************************************************)
(* Model of the movie-api service layer (services/movies.service.ts): the  *)
(* four query operations, the two SQLite stores they read, and the         *)
(* callbacks through which the stores answer; and of the four controllers  *)
(* (controllers/movies.controller.ts) that call the operations.            *)
(*                                                                         *)
(* Text values (TEXT columns, request parameters, formatted output) are    *)
(* sequences of one-character strings, so that substr, LIKE, JSON.parse    *)
(* and number formatting are computed character by character.              *)
(***************************************************************************)
EXTENDS Integers, Sequences, FiniteSets, TLC

(***************************************************************************)
(* Bounds of the model.                                                    *)
(***************************************************************************)
\* number of rows in the movies table
NumRows == 64
\* pages a caller asks for: 1..MaxPage
MaxPage == 3
\* longest genre parameter, in characters
MaxGenreLen == 2

\* the invocations of the service
CallIds == {1}

(***************************************************************************)
(* Characters and text.                                                    *)
(***************************************************************************)
Q == "\""

DigitChars == <<"0", "1", "2", "3", "4", "5", "6", "7", "8", "9">>

\* ASCII codes of the characters the model uses
CharCodes ==
    (Q :> 34) @@ ("$" :> 36) @@ ("%" :> 37) @@ ("," :> 44) @@ ("-" :> 45) @@ ("." :> 46)
    @@ ("/" :> 47) @@ ("0" :> 48) @@ ("1" :> 49) @@ ("2" :> 50) @@ ("3" :> 51)
    @@ ("4" :> 52) @@ ("5" :> 53) @@ ("6" :> 54) @@ ("7" :> 55) @@ ("8" :> 56)
    @@ ("9" :> 57) @@ ("A" :> 65) @@ ("B" :> 66) @@ ("C" :> 67) @@ ("N" :> 78)
    @@ ("[" :> 91) @@ ("]" :> 93) @@ ("_" :> 95) @@ ("a" :> 97) @@ ("b" :> 98)
    @@ ("c" :> 99) @@ ("l" :> 108) @@ ("n" :> 110) @@ ("u" :> 117) @@ ("x" :> 120)

CharCode(ch) == CharCodes[ch]

\* SQL NULL in a TEXT column and in an INTEGER column; a stored value
NullText == [null |-> TRUE, v |-> <<>>]
NullInt == [null |-> TRUE, v |-> 0]
Val(x) == [null |-> FALSE, v |-> x]

(***************************************************************************)
(* JavaScript values: null, strings, arrays.                               *)
(***************************************************************************)
JSNull == [t |-> "null"]
JSString(s) == [t |-> "str", v |-> s]
JSArray(a) == [t |-> "arr", v |-> a]

\* truthiness of a column value as JavaScript sees it: null, "" and 0 are falsy
TruthyText(x) == ~x.null /\ x.v # <<>>
TruthyNumber(x) == ~x.null /\ x.v.num # 0

\* String(x) for the argument of JSON.parse: null becomes the text null
ToStringArg(x) == IF x.null THEN <<"n", "u", "l", "l">> ELSE x.v

ParseFail == [ok |-> FALSE, val |-> JSNull, next |-> 0]

RECURSIVE ScanString(_, _)
\* index of the quote closing a string whose body starts at i, 0 if none
ScanString(t, i) ==
    IF i > Len(t) THEN 0
    ELSE IF t[i] = Q THEN i
    ELSE ScanString(t, i + 1)

RECURSIVE ParseValue(_, _)
RECURSIVE ParseElements(_, _, _)
\* one JSON value starting at t[i]: null, a string or an array of values
ParseValue(t, i) ==
    IF i > Len(t) THEN ParseFail
    ELSE IF t[i] = Q THEN
        LET j == ScanString(t, i + 1)
        IN IF j = 0 THEN ParseFail
           ELSE [ok |-> TRUE, val |-> JSString(SubSeq(t, i + 1, j - 1)), next |-> j + 1]
    ELSE IF t[i] = "[" THEN
        IF i + 1 <= Len(t) /\ t[i + 1] = "]"
        THEN [ok |-> TRUE, val |-> JSArray(<<>>), next |-> i + 2]
        ELSE ParseElements(t, i + 1, <<>>)
    ELSE IF i + 3 <= Len(t) /\ SubSeq(t, i, i + 3) = <<"n", "u", "l", "l">>
        THEN [ok |-> TRUE, val |-> JSNull, next |-> i + 4]
    ELSE ParseFail

\* the elements of an array after its opening bracket, up to the closing one
ParseElements(t, i, acc) ==
    LET r == ParseValue(t, i)
    IN IF ~r.ok \/ r.next > Len(t) THEN ParseFail
       ELSE IF t[r.next] = "," THEN ParseElements(t, r.next + 1, Append(acc, r.val))
       ELSE IF t[r.next] = "]"
           THEN [ok |-> TRUE, val |-> JSArray(Append(acc, r.val)), next |-> r.next + 1]
       ELSE ParseFail

\* JSON.parse(x): the parsed value, or a thrown SyntaxError
JSONparse(x) ==
    LET t == ToStringArg(x)
        r == ParseValue(t, 1)
    IN IF r.ok /\ r.next = Len(t) + 1
       THEN [threw |-> FALSE, val |-> r.val]
       ELSE [threw |-> TRUE, val |-> JSNull]

(***************************************************************************)
(* Number formatting.                                                      *)
(***************************************************************************)
RECURSIVE NumberToString(_)
\* String(n) of a non-negative integer: its decimal digits
NumberToString(n) ==
    IF n < 10 THEN <<DigitChars[n + 1]>>
    ELSE NumberToString(n \div 10) \o <<DigitChars[(n % 10) + 1]>>

\* budget ? `$${budget}` : 'N/A': a budget of 0 shown as absent
FormatBudget_Truthy(b) ==
    IF ~b.null /\ b.v # 0 THEN <<"$">> \o NumberToString(b.v) ELSE <<"N", "/", "A">>

\* budget !== null && budget !== undefined ? `$${budget}` : 'N/A'
FormatBudget(b) ==
    IF ~b.null THEN <<"$">> \o NumberToString(b.v) ELSE <<"N", "/", "A">>


\* a JavaScript number held exactly, as the fraction num / den
Num(n, d) == [num |-> n, den |-> d]
NullNum == [null |-> TRUE, v |-> Num(0, 1)]

\* x.toFixed(1) of a non-negative number: the nearest tenth, the larger one on a
\* tie, written as digits, a point and one digit
toFixed1(x) ==
    LET n == (20 * x.num + x.den) \div (2 * x.den)
    IN NumberToString(n \div 10) \o <<".">> \o <<DigitChars[(n % 10) + 1]>>

DigitValue(ch) == CharCode(ch) - 48
IsDigit(ch) == CharCode(ch) \in 48..57

RECURSIVE ParseDigits(_, _, _)
\* the run of digits of t from index i on: [value, next]
ParseDigits(t, i, acc) ==
    IF i <= Len(t) /\ IsDigit(t[i])
    THEN ParseDigits(t, i + 1, 10 * acc + DigitValue(t[i]))
    ELSE [value |-> acc, next |-> i]

\* parseFloat of a text of the shape digits.digit, as written by toFixed(1)
parseFloat(t) ==
    LET ip == ParseDigits(t, 1, 0)
    IN IF ip.next + 1 <= Len(t) /\ t[ip.next] = "."
       THEN Num(10 * ip.value + DigitValue(t[ip.next + 1]), 10)
       ELSE Num(ip.value, 1)

(***************************************************************************)
(* SQLite: the functions and clauses the four queries use.                 *)
(***************************************************************************)
Min(a, b) == IF a <= b THEN a ELSE b

\* substr(x, start, len); NULL for NULL
SqlSubstr(x, start, len) ==
    IF x.null THEN NullText
    ELSE Val(SubSeq(x.v, start, Min(start + len - 1, Len(x.v))))

\* a = b is true; it is NULL, hence not true, when either side is NULL
SqlEqIsTrue(a, b) == ~a.null /\ ~b.null /\ a.v = b.v

\* LIKE folds the case of ASCII letters only
Fold(ch) == IF CharCode(ch) \in 65..90 THEN CharCode(ch) + 32 ELSE CharCode(ch)

RECURSIVE LikeMatch(_, _, _, _)
\* pattern p from index i matches text t from index j: % is any run of
\* characters, _ is any one character
LikeMatch(p, i, t, j) ==
    IF i > Len(p) THEN j > Len(t)
    ELSE IF p[i] = "%" THEN
        \/ LikeMatch(p, i + 1, t, j)
        \/ (j <= Len(t) /\ LikeMatch(p, i, t, j + 1))
    ELSE IF p[i] = "_" THEN j <= Len(t) /\ LikeMatch(p, i + 1, t, j + 1)
    ELSE j <= Len(t) /\ Fold(p[i]) = Fold(t[j]) /\ LikeMatch(p, i + 1, t, j + 1)

\* x LIKE p is true; NULL LIKE p is NULL, hence not true
SqlLikeIsTrue(x, p) == ~x.null /\ LikeMatch(p, 1, x.v, 1)

RECURSIVE TextCompare(_, _, _)
\* BINARY collation: -1, 0 or 1 as a sorts before, with or after b
TextCompare(a, b, i) ==
    IF i > Len(a) /\ i > Len(b) THEN 0
    ELSE IF i > Len(a) THEN -1
    ELSE IF i > Len(b) THEN 1
    ELSE IF CharCode(a[i]) < CharCode(b[i]) THEN -1
    ELSE IF CharCode(a[i]) > CharCode(b[i]) THEN 1
    ELSE TextCompare(a, b, i + 1)

\* comparison of two column values; NULL sorts before every text
ValueCompare(a, b) ==
    IF a.null /\ b.null THEN 0
    ELSE IF a.null THEN -1
    ELSE IF b.null THEN 1
    ELSE TextCompare(a.v, b.v, 1)

\* row j of rows comes before row k under ORDER BY releaseDate dir. Rows with
\* equal keys have no defined order: ties is the order the engine picks
Precedes(rows, j, k, dir, ties) ==
    LET c == ValueCompare(rows[j].releaseDate, rows[k].releaseDate)
    IN \/ (dir = "ASC" /\ c < 0)
       \/ (dir = "DESC" /\ c > 0)
       \/ (c = 0 /\ ties = "stable" /\ j < k)
       \/ (c = 0 /\ ties = "reversed" /\ j > k)

\* the rows, each at the place its rank names
Arrange(rows, rank) == [p \in 1..Len(rows) |-> rows[CHOOSE k \in 1..Len(rows) : rank[k] = p]]

\* the rank of each row: one more than the number of rows that precede it
Ranks(rows, dir, ties) ==
    [k \in 1..Len(rows) |->
        Cardinality({j \in 1..Len(rows) : Precedes(rows, j, k, dir, ties)}) + 1]

\* ORDER BY releaseDate ASC | DESC (the singleton sets bind the rows and their
\* ranks as values, computed once)
OrderByReleaseDate(rows, dir, ties) ==
    CHOOSE sorted \in UNION {{Arrange(rs, rk) : rk \in {Ranks(rs, dir, ties)}} : rs \in {rows}} :
        TRUE

\* LIMIT limit OFFSET offset
LimitOffset(rows, limit, offset) ==
    LET skip == IF offset < 0 THEN 0 ELSE offset
        last == IF limit < 0 THEN Len(rows) ELSE Min(skip + limit, Len(rows))
    IN SubSeq(rows, skip + 1, last)

\* SELECT columns: the row restricted to the named columns
Project(row, cols) == [f \in cols |-> row[f]]
ProjectAll(rows, cols) == [k \in 1..Len(rows) |-> Project(rows[k], cols)]

RECURSIVE SumRatings(_)
SumRatings(samples) ==
    IF samples = <<>> THEN 0 ELSE Head(samples).rating + SumRatings(Tail(samples))

\* AVG(rating): NULL over no rows
SqlAvg(samples) ==
    IF samples = <<>> THEN NullNum ELSE Val(Num(SumRatings(samples), Len(samples)))

(***************************************************************************)
(* The two stores.  movies.db holds NumRows rows; Row(i, variant) is row i. *)
(* One row, VariantRow, differs between the variants of the table, which    *)
(* cover a well-formed table and the irregular text values a row may hold.  *)
(***************************************************************************)
Variants == {"clean", "nullText", "emptyText", "malformedGenres", "malformedCompanies"}
VariantRow == 3

TwoDigits(n) == <<DigitChars[(n \div 10) + 1], DigitChars[(n % 10) + 1]>>

\* rows 1 and 9 share a release date; row 2 holds a year only; every 11th row
\* has no date; rows 5, 16, ... are from 2006; the others are spread over 2005
ReleaseDateOf(i) ==
    LET k == IF i = 9 THEN 1 ELSE i
        d == (k * 37) % 360
    IN IF i % 11 = 0 THEN NullText
       ELSE IF i = 2 THEN Val(<<"2", "0", "0", "5">>)
       ELSE IF i % 11 = 5
           THEN Val(<<"2", "0", "0", "6", "-">> \o TwoDigits((d \div 30) + 1)
                    \o <<"-">> \o TwoDigits((d % 30) + 1))
       ELSE Val(<<"2", "0", "0", "5", "-">> \o TwoDigits((d \div 30) + 1)
                \o <<"-">> \o TwoDigits((d % 30) + 1))

BudgetOf(i) ==
    CASE i % 4 = 0 -> Val(1000000)
      [] i % 4 = 1 -> Val(i)
      [] i % 4 = 2 -> NullInt
      [] i % 4 = 3 -> Val(0)

GenresOf(i) ==
    CASE i % 5 = 0 -> Val(<<"[", Q, "c", Q, "]">>)
      [] i % 5 = 1 -> Val(<<"[", Q, "A", "b", Q, "]">>)
      [] i % 5 = 2 -> Val(<<"[", Q, "a", "b", Q, ",", Q, "c", Q, "]">>)
      [] i % 5 = 3 -> Val(<<"[", Q, "a", "B", Q, "]">>)
      [] i % 5 = 4 -> Val(<<"[", Q, "C", "a", Q, ",", Q, "x", Q, "]">>)

CompaniesOf(i) ==
    IF i % 2 = 0 THEN Val(<<"[", Q, "C", "x", Q, "]">>) ELSE Val(<<"[", "]">>)

\* an unterminated array: text that is present and is not JSON
Malformed == Val(<<"[", Q, "a", Q>>)

Row(i, variant) ==
    [movieId |-> 100 + i,
     imdbId |-> <<"t", "t">> \o NumberToString(i),
     title |-> <<"T">> \o NumberToString(i),
     overview |-> IF i % 3 = 0 THEN NullText ELSE Val(<<"o">>),
     releaseDate |-> ReleaseDateOf(i),
     budget |-> BudgetOf(i),
     runtime |-> IF i % 3 = 1 THEN NullInt ELSE Val(90 + i),
     language |-> <<"e", "n">>,
     genres |->
        IF i # VariantRow THEN GenresOf(i)
        ELSE CASE variant = "nullText" -> NullText
               [] variant = "emptyText" -> Val(<<>>)
               [] variant = "malformedGenres" -> Malformed
               [] OTHER -> GenresOf(i),
     productionCompanies |->
        IF i # VariantRow THEN CompaniesOf(i)
        ELSE CASE variant = "nullText" -> NullText
               [] variant = "emptyText" -> Val(<<>>)
               [] variant = "malformedCompanies" -> Malformed
               [] OTHER -> CompaniesOf(i)]

MoviesTable(variant) == [i \in 1..NumRows |-> Row(i, variant)]

\* the rating samples of the movie of row i, in ratings.db
SamplesOf(i) ==
    CASE i = 1 -> <<4, 5>>
      [] i = 2 -> <<4, 4, 5>>
      [] i = 4 -> <<0>>
      [] i = 5 -> <<0, 0, 0>>
      [] i = 6 -> <<4, 4, 4, 5>>
      [] i = 7 -> <<0, 0, 1>>
      [] i = 8 -> <<5>>
      [] i = 9 -> <<3, 4>>
      [] i = 10 -> <<4, 5, 5>>
      [] i = 12 -> <<1, 2, 2, 2>>
      [] OTHER -> <<>>

\* rows of the movies table a detail request may name
MaxDetailRow == 12

RECURSIVE RatingsUpTo(_)
RatingsUpTo(i) ==
    IF i = 0 THEN <<>>
    ELSE RatingsUpTo(i - 1)
         \o [k \in 1..Len(SamplesOf(i)) |-> [movieId |-> 100 + i, rating |-> SamplesOf(i)[k]]]

RatingsTable == RatingsUpTo(MaxDetailRow)

(***************************************************************************)
(* Arguments of the service operations.                                    *)
(***************************************************************************)
Pages == 1..MaxPage
UnknownImdbId == <<"t", "t", "0">>
ImdbArgs == {Row(i, "clean").imdbId : i \in 1..MaxDetailRow} \cup {UnknownImdbId}
YearArgs == {<<"2", "0", "0", "5">>, <<"2", "0", "0", "6">>, <<"2", "0">>, <<"x">>}
SortOrders == {"asc", "desc"}
GenreChars == {"a", "B", "c", "%", "_"}
GenreArgs == UNION {[1..n -> GenreChars] : n \in 0..MaxGenreLen}

\* errors a store may answer a query with
StoreErrors == {"SQLITE_BUSY", "SQLITE_CORRUPT"}

(***************************************************************************)
(* State.                                                                  *)
(***************************************************************************)
VARIABLES
    movies,         \* the movies table of movies.db, in rowid order
    ratings,        \* the ratings table of ratings.db
    call,           \* call[c]: the operation invoked and its arguments
    pc,             \* pc[c]: "idle", "moviesQuery", "ratingsQuery" or "done"
    promise,        \* promise[c]: the promise the operation returned
    movieQueries,   \* movieQueries[c]: the queries sent to moviesDb, in order
    ratingQueries,  \* ratingQueries[c]: the queries sent to ratingsDb, in order
    matched,        \* matched[c]: the row the detail callback closed over
    storeErrors,    \* storeErrors[c]: the errors the stores answered with
    uncaught,       \* uncaught[c]: the exception that escaped a callback
    request,        \* request[c]: the HTTP request a controller was invoked with
    response,       \* response[c]: the res object of that request
    handler,        \* handler[c]: "none", "awaiting" or "returned", the controller's position
    escaped         \* escaped[c]: the error the controller's own promise rejected with

vars == <<movies, ratings, call, pc, promise, movieQueries, ratingQueries,
          matched, storeErrors, uncaught, request, response, handler, escaped>>

\* the state of the controllers (controllers/movies.controller.ts)
httpVars == <<request, response, handler, escaped>>

None == [t |-> "none"]
NoCall == [op |-> "none", imdbId |-> <<>>, page |-> 0, year |-> <<>>,
           sortOrder |-> "asc", genre |-> <<>>]
Pending == [state |-> "pending", value |-> None, reason |-> None]

\* resolve(v) and reject(e) settle a pending promise and leave a settled one alone
Resolve(p, v) ==
    IF p.state = "pending" THEN [state |-> "fulfilled", value |-> v, reason |-> None] ELSE p
\* reject with an error made on the spot, not with the error the store gave
Reject_Generic(p, e) ==
    IF p.state = "pending"
    THEN [state |-> "rejected", value |-> None, reason |-> [t |-> "Error"]]
    ELSE p

Reject(p, e) ==
    IF p.state = "pending" THEN [state |-> "rejected", value |-> None, reason |-> e] ELSE p

StoreError(store, code) == [t |-> "StoreError", store |-> store, code |-> code]
SyntaxError == [t |-> "SyntaxError"]

JSList(dtos) == [t |-> "list", v |-> dtos]
JSObject(dto) == [t |-> "obj", v |-> dto]

\* a query parameter the request does not carry (undefined), one it carries once
\* (a string), and one it carries several times (an array, v its elements joined
\* by commas, as String(array) gives them)
Absent == [t |-> "undefined", v |-> <<>>]
StringParam(text) == [t |-> "string", v |-> text]
ArrayParam(joined) == [t |-> "array", v |-> joined]

\* no request: the service was called directly
NoRequest == [controller |-> "none", page |-> Absent, sort |-> Absent]
\* a res object nothing was done to yet: status 200, nothing sent
FreshResponse == [statusCode |-> 200, headersSent |-> FALSE, sent |-> <<>>, jsonCalls |-> 0]

\* the state after the modules are loaded, for the invocations ids
InitCalls(ids) ==
    /\ \E variant \in Variants : movies = MoviesTable(variant)
    /\ ratings = RatingsTable
    /\ call = [c \in ids |-> NoCall]
    /\ pc = [c \in ids |-> "idle"]
    /\ promise = [c \in ids |-> Pending]
    /\ movieQueries = [c \in ids |-> <<>>]
    /\ ratingQueries = [c \in ids |-> <<>>]
    /\ matched = [c \in ids |-> None]
    /\ storeErrors = [c \in ids |-> <<>>]
    /\ uncaught = [c \in ids |-> None]
    /\ request = [c \in ids |-> NoRequest]
    /\ response = [c \in ids |-> FreshResponse]
    /\ handler = [c \in ids |-> "none"]
    /\ escaped = [c \in ids |-> None]

Init == InitCalls(CallIds)

(***************************************************************************)
(* The queries, as sent to a store, and what the store computes for them.  *)
(***************************************************************************)
pageSize == 50

\* a column list that selects the internal id too
ListColumns_WithMovieId == {"movieId", "imdbId", "title", "genres", "releaseDate", "budget"}

ListColumns == {"imdbId", "title", "genres", "releaseDate", "budget"}
DetailColumns == {"movieId", "imdbId", "title", "overview", "releaseDate", "budget",
                  "runtime", "language", "genres", "productionCompanies"}

\* a negative LIMIT is no limit
MovieQuery(sql, text, dir, limit, offset) ==
    [sql |-> sql, text |-> text, dir |-> dir, limit |-> limit, offset |-> offset]

\* an offset that takes pages to count from 0
Offset_FromPageZero(page) == page * pageSize

\* const offset = (page - 1) * pageSize
Offset(page) == (page - 1) * pageSize

\* a direction that ignores the sort order asked for
toUpperCase_AlwaysAsc(sortOrder) == "ASC"

\* sortOrder.toUpperCase(), the direction written into ORDER BY
toUpperCase(sortOrder) == IF sortOrder = "desc" THEN "DESC" ELSE "ASC"

HasImdbId(row, imdbId) == SqlEqIsTrue(Val(row.imdbId), Val(imdbId))
InYear(row, year) == SqlEqIsTrue(SqlSubstr(row.releaseDate, 1, 4), Val(year))
GenresLike(row, pattern) == SqlLikeIsTrue(row.genres, pattern)

\* the rows moviesDb answers query q with
RunMovieQuery(q, ties) ==
    CASE q.sql = "listAll" ->
            ProjectAll(LimitOffset(movies, q.limit, q.offset), ListColumns)
      [] q.sql = "byImdbId" ->
            ProjectAll(SelectSeq(movies, LAMBDA r : HasImdbId(r, q.text)), DetailColumns)
      [] q.sql = "byYear" ->
            ProjectAll(LimitOffset(OrderByReleaseDate(
                                       SelectSeq(movies, LAMBDA r : InYear(r, q.text)),
                                       q.dir, ties),
                                   q.limit, q.offset), ListColumns)
      [] q.sql = "byGenre" ->
            ProjectAll(LimitOffset(SelectSeq(movies, LAMBDA r : GenresLike(r, q.text)),
                                   q.limit, q.offset), ListColumns)

HasMovieId(sample, movieId) == sample.movieId = movieId

\* the one row ratingsDb answers the aggregate query with
RunRatingQuery(q) ==
    [averageRating |-> SqlAvg(SelectSeq(ratings, LAMBDA r : HasMovieId(r, q.movieId)))]

(***************************************************************************)
(* Shaping of rows.                                                        *)
(***************************************************************************)
\* row.genres ? JSON.parse(row.genres) : []
ParseIfTruthy(text) ==
    IF TruthyText(text) THEN JSONparse(text) ELSE [threw |-> FALSE, val |-> JSArray(<<>>)]

\* { ...movie, genres: JSON.parse(movie.genres), budget: ... }: the shaped row,
\* or the exception JSON.parse throws
ShapeMovie(movie) ==
    [threw |-> JSONparse(movie.genres).threw,
     val |-> [movie EXCEPT !.genres = JSONparse(movie.genres).val,
                           !.budget = FormatBudget(movie.budget)]]

\* { ...row, genres: row.genres ? JSON.parse(row.genres) : [], budget: ... }
ShapeRow(row) ==
    [threw |-> ParseIfTruthy(row.genres).threw,
     val |-> [row EXCEPT !.genres = ParseIfTruthy(row.genres).val,
                         !.budget = FormatBudget(row.budget)]]

\* rows.map(...): the shaped rows, or the exception the first failing row throws
MapRows(shaped) ==
    IF \E k \in 1..Len(shaped) : shaped[k].threw
    THEN [threw |-> TRUE, val |-> <<>>]
    ELSE [threw |-> FALSE, val |-> [k \in 1..Len(shaped) |-> shaped[k].val]]

\* ratingRow?.averageRating ? parseFloat(ratingRow.averageRating.toFixed(1)) : null
AverageRating(ratingRow) ==
    IF TruthyNumber(ratingRow.averageRating)
    THEN Val(parseFloat(toFixed1(ratingRow.averageRating.v)))
    ELSE NullNum

\* the MovieDetails object, or the exception one of its JSON.parse calls throws
BuildDetails(row, ratingRow) ==
    LET genres == ParseIfTruthy(row.genres)
        companies == ParseIfTruthy(row.productionCompanies)
    IN IF genres.threw \/ companies.threw THEN [threw |-> TRUE, val |-> None]
       ELSE [threw |-> FALSE,
             val |-> [imdbId |-> row.imdbId,
                      title |-> row.title,
                      description |-> row.overview,
                      releaseDate |-> row.releaseDate,
                      budget |-> FormatBudget(row.budget),
                      runtime |-> row.runtime,
                      averageRating |-> AverageRating(ratingRow),
                      genres |-> genres.val,
                      originalLanguage |-> row.language,
                      productionCompanies |-> companies.val]]

(***************************************************************************)
(* The operations: each returns a pending promise and sends its first      *)
(* query; the store answers later by calling the operation's callback.     *)
(***************************************************************************)
Start(c, args, q) ==
    /\ call' = [call EXCEPT ![c] = args]
    /\ promise' = [promise EXCEPT ![c] = Pending]
    /\ movieQueries' = [movieQueries EXCEPT ![c] = Append(@, q)]
    /\ pc' = [pc EXCEPT ![c] = "moviesQuery"]
    /\ UNCHANGED <<movies, ratings, ratingQueries, matched, storeErrors, uncaught>>

getPaginatedMovies(c, page) ==
    /\ pc[c] = "idle"
    /\ Start(c, [NoCall EXCEPT !.op = "getPaginatedMovies", !.page = page],
          MovieQuery("listAll", <<>>, "", pageSize, Offset(page)))
    /\ UNCHANGED httpVars

getMovieDetailsByImdbId(c, imdbId) ==
    /\ pc[c] = "idle"
    /\ Start(c, [NoCall EXCEPT !.op = "getMovieDetailsByImdbId", !.imdbId = imdbId],
          MovieQuery("byImdbId", imdbId, "", -1, 0))
    /\ UNCHANGED httpVars

getMoviesByYear(c, year, page, sortOrder) ==
    /\ pc[c] = "idle"
    /\ Start(c, [NoCall EXCEPT !.op = "getMoviesByYear", !.year = year, !.page = page,
                            !.sortOrder = sortOrder],
          MovieQuery("byYear", year, toUpperCase(sortOrder), pageSize, Offset(page)))
    /\ UNCHANGED httpVars

\* a pattern that matches the genre at the start of the text only
genreMatch_Prefix(genre) == genre \o <<"%">>

\* const genreMatch = `%${genre}%`
genreMatch(genre) == <<"%">> \o genre \o <<"%">>

getMoviesByGenre(c, genre, page) ==
    /\ pc[c] = "idle"
    /\ Start(c, [NoCall EXCEPT !.op = "getMoviesByGenre", !.genre = genre, !.page = page],
          MovieQuery("byGenre", genreMatch(genre), "", pageSize, Offset(page)))
    /\ UNCHANGED httpVars

\* the callback got an error from the store: reject(err)
Failed(c, store, code) ==
    /\ promise' = [promise EXCEPT ![c] = Reject(@, StoreError(store, code))]
    /\ storeErrors' = [storeErrors EXCEPT ![c] = Append(@, StoreError(store, code))]
    /\ pc' = [pc EXCEPT ![c] = "done"]
    /\ UNCHANGED <<movies, ratings, call, movieQueries, ratingQueries, matched, uncaught>>
    /\ UNCHANGED httpVars

\* the callback ran to its end with result r: resolve(r.val), unless building
\* r threw, and then the exception leaves the callback with the promise as it was
Answered(c, r) ==
    /\ promise' = [promise EXCEPT ![c] = IF r.threw THEN @ ELSE Resolve(@, r.val)]
    /\ uncaught' = [uncaught EXCEPT ![c] = IF r.threw THEN SyntaxError ELSE @]
    /\ pc' = [pc EXCEPT ![c] = "done"]
    /\ UNCHANGED <<movies, ratings, call, movieQueries, ratingQueries, matched, storeErrors>>
    /\ UNCHANGED httpVars

Shaped(r) == [threw |-> r.threw, val |-> JSList(r.val)]

\* the callback of moviesDb.all in getPaginatedMovies
getPaginatedMoviesCallback(c) ==
    /\ pc[c] = "moviesQuery"
    /\ call[c].op = "getPaginatedMovies"
    /\ \/ \E code \in StoreErrors : Failed(c, "movies", code)
       \/ \E rows \in {RunMovieQuery(movieQueries[c][Len(movieQueries[c])], "stable")} :
            Answered(c, Shaped(MapRows([k \in 1..Len(rows) |-> ShapeMovie(rows[k])])))

\* the callback of moviesDb.all in getMoviesByYear
getMoviesByYearCallback(c) ==
    /\ pc[c] = "moviesQuery"
    /\ call[c].op = "getMoviesByYear"
    /\ \/ \E code \in StoreErrors : Failed(c, "movies", code)
       \/ \E ties \in {"stable", "reversed"} :
            \E rows \in {RunMovieQuery(movieQueries[c][Len(movieQueries[c])], ties)} :
                Answered(c, Shaped(MapRows([k \in 1..Len(rows) |-> ShapeRow(rows[k])])))

\* the callback of moviesDb.all in getMoviesByGenre
getMoviesByGenreCallback(c) ==
    /\ pc[c] = "moviesQuery"
    /\ call[c].op = "getMoviesByGenre"
    /\ \/ \E code \in StoreErrors : Failed(c, "movies", code)
       \/ \E rows \in {RunMovieQuery(movieQueries[c][Len(movieQueries[c])], "stable")} :
            Answered(c, Shaped(MapRows([k \in 1..Len(rows) |-> ShapeRow(rows[k])])))

\* a rating query keyed by the row's position in the table, not by its movieId
RatingQuery_ByRowNumber(row) == [movieId |-> row.movieId - 100]

\* const movieId = row.movieId, the parameter of the rating query
RatingQuery(row) == [movieId |-> row.movieId]

\* the callback of moviesDb.get in getMovieDetailsByImdbId
movieCallback(c) ==
    /\ pc[c] = "moviesQuery"
    /\ call[c].op = "getMovieDetailsByImdbId"
    /\ \/ \E code \in StoreErrors : Failed(c, "movies", code)
       \/ \E rows \in {RunMovieQuery(movieQueries[c][Len(movieQueries[c])], "stable")} :
             IF rows = <<>>
             THEN Answered(c, [threw |-> FALSE, val |-> JSNull])
             ELSE /\ matched' = [matched EXCEPT ![c] = rows[1]]
                  /\ ratingQueries' =
                        [ratingQueries EXCEPT ![c] = Append(@, RatingQuery(rows[1]))]
                  /\ pc' = [pc EXCEPT ![c] = "ratingsQuery"]
                  /\ UNCHANGED <<movies, ratings, call, promise, movieQueries,
                                 storeErrors, uncaught>>
                  /\ UNCHANGED httpVars

\* a rating callback that reads the row from one variable all calls share, which
\* holds the row of the lowest-numbered call that matched
ratingCallback_SharedRow(c) ==
    /\ pc[c] = "ratingsQuery"
    /\ \/ \E code \in StoreErrors : Failed(c, "ratings", code)
       \/ LET holders == {d \in DOMAIN matched : matched[d] # None}
              shared == matched[CHOOSE d \in holders : \A e \in holders : d <= e]
              ratingRow == RunRatingQuery(ratingQueries[c][Len(ratingQueries[c])])
              r == BuildDetails(shared, ratingRow)
          IN Answered(c, [threw |-> r.threw, val |-> JSObject(r.val)])

\* the callback of ratingsDb.get in getMovieDetailsByImdbId
ratingCallback(c) ==
    /\ pc[c] = "ratingsQuery"
    /\ \/ \E code \in StoreErrors : Failed(c, "ratings", code)
       \/ LET ratingRow == RunRatingQuery(ratingQueries[c][Len(ratingQueries[c])])
              r == BuildDetails(matched[c], ratingRow)
          IN Answered(c, [threw |-> r.threw, val |-> JSObject(r.val)])

Next ==
    \E c \in CallIds :
        \/ \E page \in Pages : getPaginatedMovies(c, page)
        \/ \E imdbId \in ImdbArgs : getMovieDetailsByImdbId(c, imdbId)
        \/ \E year \in YearArgs, page \in Pages, sortOrder \in SortOrders :
              getMoviesByYear(c, year, page, sortOrder)
        \/ \E genre \in GenreArgs, page \in Pages : getMoviesByGenre(c, genre, page)
        \/ getPaginatedMoviesCallback(c)
        \/ getMoviesByYearCallback(c)
        \/ getMoviesByGenreCallback(c)
        \/ movieCallback(c)
        \/ ratingCallback(c)

Spec == Init /\ [][Next]_vars

(***************************************************************************)
(* The controllers (controllers/movies.controller.ts): each parses its     *)
(* request, calls one service operation and awaits it; when the promise    *)
(* settles the controller goes on and answers through res.                 *)
(***************************************************************************)
NaN == [nan |-> TRUE, v |-> 0]
Number(n) == [nan |-> FALSE, v |-> n]

WhiteSpace == {" "}
DigitValues ==
    ("0" :> 0) @@ ("1" :> 1) @@ ("2" :> 2) @@ ("3" :> 3) @@ ("4" :> 4) @@ ("5" :> 5)
    @@ ("6" :> 6) @@ ("7" :> 7) @@ ("8" :> 8) @@ ("9" :> 9) @@ ("a" :> 10) @@ ("b" :> 11)
    @@ ("c" :> 12) @@ ("d" :> 13) @@ ("e" :> 14) @@ ("f" :> 15) @@ ("A" :> 10)
    @@ ("B" :> 11) @@ ("C" :> 12) @@ ("D" :> 13) @@ ("E" :> 14) @@ ("F" :> 15)

RECURSIVE SkipWhiteSpace(_, _)
SkipWhiteSpace(t, i) ==
    IF i <= Len(t) /\ t[i] \in WhiteSpace THEN SkipWhiteSpace(t, i + 1) ELSE i

RECURSIVE ParseRadix(_, _, _, _)
\* the digits of t in the radix from index i on: how many, and their value
ParseRadix(t, i, radix, acc) ==
    IF i <= Len(t) /\ t[i] \in DOMAIN DigitValues /\ DigitValues[t[i]] < radix
    THEN ParseRadix(t, i + 1, radix,
                    [n |-> acc.n + 1, v |-> radix * acc.v + DigitValues[t[i]]])
    ELSE acc

\* parseInt(String(param)) without a radix: blanks, a sign, 0x for hexadecimal,
\* then the longest run of digits; NaN when there is no digit
parseInt(param) ==
    IF param.t = "undefined" THEN NaN
    ELSE LET t == param.v
             i == SkipWhiteSpace(t, 1)
             signed == i <= Len(t) /\ t[i] \in {"+", "-"}
             negative == i <= Len(t) /\ t[i] = "-"
             j == IF signed THEN i + 1 ELSE i
             hex == j + 1 <= Len(t) /\ t[j] = "0" /\ t[j + 1] \in {"x", "X"}
             r == IF hex THEN ParseRadix(t, j + 2, 16, [n |-> 0, v |-> 0])
                  ELSE ParseRadix(t, j, 10, [n |-> 0, v |-> 0])
         IN IF r.n = 0 THEN NaN ELSE Number(IF negative THEN -r.v ELSE r.v)

\* a page that is 1 unless the parameter is a plain positive numeral
PageOf_Validated(param) ==
    IF /\ param.t = "string"
       /\ param.v # <<>>
       /\ \A k \in 1..Len(param.v) : param.v[k] \in DOMAIN DigitValues /\ DigitValues[param.v[k]] < 10
       /\ parseInt(param).v > 0
    THEN parseInt(param).v
    ELSE 1

\* const page = parseInt(req.query.page as string) || 1
PageOf(param) ==
    IF parseInt(param).nan \/ parseInt(param).v = 0 THEN 1 ELSE parseInt(param).v

UpperToLower ==
    ("A" :> "a") @@ ("C" :> "c") @@ ("D" :> "d") @@ ("E" :> "e") @@ ("S" :> "s")

\* text.toLowerCase()
toLowerCase(text) ==
    [k \in 1..Len(text) |->
        IF text[k] \in DOMAIN UpperToLower THEN UpperToLower[text[k]] ELSE text[k]]

\* a sort order that is 'desc' only for the exact text desc
SortOf_Exact(param) ==
    IF param.t = "string" /\ param.v = <<"d", "e", "s", "c">> THEN "desc" ELSE "asc"

\* (req.query.sort as string)?.toLowerCase() === 'desc' ? 'desc' : 'asc', for a
\* parameter that is absent or a string
SortOf(param) ==
    IF param.t = "string" /\ toLowerCase(param.v) = <<"d", "e", "s", "c">>
    THEN "desc" ELSE "asc"

\* an array has no toLowerCase: calling it throws a TypeError
SortThrows(param) == param.t = "array"

TypeError == [t |-> "TypeError"]
\* what setHeader throws once the headers of a response are on the wire
HeadersSentError == [t |-> "ERR_HTTP_HEADERS_SENT"]

ErrorBody(message) == [t |-> "error", error |-> message]
PageBody(page, list) == [t |-> "page", page |-> page, movies |-> list]

\* a res whose status stays as it was
Status_Ignored(r, code) == r

\* res.status(code)
Status(r, code) == [r EXCEPT !.statusCode = code]

\* res.json(body) throws when the headers are already sent and res refuses a
\* second body, as the response of the HTTP server does
JsonThrows(r, refuses) == r.headersSent /\ refuses

\* res.json(body): the body goes out with the status set so far, unless the call throws
Json(r, body, refuses) ==
    IF JsonThrows(r, refuses) THEN [r EXCEPT !.jsonCalls = @ + 1]
    ELSE [r EXCEPT !.jsonCalls = @ + 1,
                   !.headersSent = TRUE,
                   !.sent = Append(@, [status |-> r.statusCode, body |-> body])]

\* the controller took the request and is at its await
Awaiting(c, name, page, sort) ==
    /\ handler[c] = "none"
    /\ pc[c] = "idle"
    /\ request' = [request EXCEPT ![c] = [controller |-> name, page |-> page, sort |-> sort]]
    /\ handler' = [handler EXCEPT ![c] = "awaiting"]
    /\ UNCHANGED <<response, escaped>>

\* listAllMovies up to its await: getPaginatedMovies(page)
listAllMovies(c, page) ==
    /\ Awaiting(c, "listAllMovies", page, Absent)
    /\ Start(c, [NoCall EXCEPT !.op = "getPaginatedMovies", !.page = PageOf(page)],
          MovieQuery("listAll", <<>>, "", pageSize, Offset(PageOf(page))))

\* the controller getMovieDetailsByImdbId up to its await
getMovieDetailsByImdbIdController(c, imdbId) ==
    /\ Awaiting(c, "getMovieDetailsByImdbId", Absent, Absent)
    /\ Start(c, [NoCall EXCEPT !.op = "getMovieDetailsByImdbId", !.imdbId = imdbId],
          MovieQuery("byImdbId", imdbId, "", -1, 0))

\* listMoviesByYear up to its await: getMoviesByYear(year, page, sort); a sort
\* parameter that is an array throws before the try block, and the controller
\* ends there with nothing called and nothing sent
listMoviesByYear(c, year, page, sort) ==
    IF SortThrows(sort)
    THEN /\ handler[c] = "none"
         /\ pc[c] = "idle"
         /\ request' = [request EXCEPT ![c] =
                            [controller |-> "listMoviesByYear", page |-> page, sort |-> sort]]
         /\ handler' = [handler EXCEPT ![c] = "returned"]
         /\ escaped' = [escaped EXCEPT ![c] = TypeError]
         /\ UNCHANGED <<movies, ratings, call, pc, promise, movieQueries, ratingQueries,
                        matched, storeErrors, uncaught, response>>
    ELSE /\ Awaiting(c, "listMoviesByYear", page, sort)
         /\ Start(c, [NoCall EXCEPT !.op = "getMoviesByYear", !.year = year,
                                 !.page = PageOf(page), !.sortOrder = SortOf(sort)],
               MovieQuery("byYear", year, toUpperCase(SortOf(sort)), pageSize,
                          Offset(PageOf(page))))

\* the controller getMoviesByGenre up to its await
getMoviesByGenreController(c, genre, page) ==
    /\ Awaiting(c, "getMoviesByGenre", page, Absent)
    /\ Start(c, [NoCall EXCEPT !.op = "getMoviesByGenre", !.genre = genre,
                            !.page = PageOf(page)],
          MovieQuery("byGenre", genreMatch(genre), "", pageSize, Offset(PageOf(page))))

\* the controller goes on after its await and returns
Returned(c) ==
    /\ handler' = [handler EXCEPT ![c] = "returned"]
    /\ UNCHANGED <<movies, ratings, call, pc, promise, movieQueries, ratingQueries,
                   matched, storeErrors, uncaught, request>>

\* a list controller after its await: res.json({ page, movies }), or the catch
\* block's res.status(500).json({ error })
ListAwaited(c, name, message) ==
    /\ handler[c] = "awaiting"
    /\ request[c].controller = name
    /\ promise[c].state # "pending"
    /\ response' = [response EXCEPT ![c] =
          IF promise[c].state = "rejected"
          THEN Json(Status(@, 500), ErrorBody(message), TRUE)
          ELSE Json(@, PageBody(call[c].page, promise[c].value), TRUE)]
    /\ UNCHANGED escaped
    /\ Returned(c)

listAllMoviesAwaited(c) ==
    /\ request[c].controller = "listAllMovies"
    /\ ListAwaited(c, "listAllMovies", "Internal Server Error")

listMoviesByYearAwaited(c) ==
    /\ request[c].controller = "listMoviesByYear"
    /\ ListAwaited(c, "listMoviesByYear", "Failed to fetch movies by year")

getMoviesByGenreAwaited(c) ==
    /\ request[c].controller = "getMoviesByGenre"
    /\ ListAwaited(c, "getMoviesByGenre", "Failed to fetch movies by genre")

DetailMessage == "Failed to fetch movie details"

\* the controller without its test for null: the movie is sent whatever it is
NotFound_NoStatus(r, movie, refuses) == [res |-> Json(r, movie, refuses), error |-> None]

\* lines 41-48 for a movie that is null: the 404 is sent, and with no return
\* after it res.json(movie) is called too; if that call throws, the catch block
\* calls res.status(500).json, which throws again, now out of the controller
NotFound(r, movie, refuses) ==
    LET first == Json(Status(r, 404), ErrorBody("Movie not found"), refuses)
        second == Json(first, movie, refuses)
        third == Json(Status(second, 500), ErrorBody(DetailMessage), refuses)
    IN IF JsonThrows(first, refuses)
       THEN [res |-> third, error |-> HeadersSentError]
       ELSE [res |-> second, error |-> None]

\* the controller getMovieDetailsByImdbId after its await
getMovieDetailsByImdbIdAwaited(c) ==
    /\ handler[c] = "awaiting"
    /\ request[c].controller = "getMovieDetailsByImdbId"
    /\ promise[c].state # "pending"
    /\ \/ /\ promise[c].state = "rejected"
          /\ response' = [response EXCEPT ![c] =
                             Json(Status(@, 500), ErrorBody(DetailMessage), TRUE)]
          /\ UNCHANGED escaped
       \/ /\ promise[c].state = "fulfilled"
          /\ promise[c].value # JSNull
          /\ response' = [response EXCEPT ![c] = Json(@, promise[c].value, TRUE)]
          /\ UNCHANGED escaped
       \/ /\ promise[c].state = "fulfilled"
          /\ promise[c].value = JSNull
          /\ \E refuses \in BOOLEAN :
                /\ response' = [response EXCEPT ![c] = NotFound(@, JSNull, refuses).res]
                /\ escaped' = [escaped EXCEPT ![c] = NotFound(response[c], JSNull, refuses).error]
    /\ Returned(c)

(***************************************************************************)
(* Requests.                                                               *)
(***************************************************************************)
\* values of ?page=: absent, the numerals 0..MaxPage, and texts that are not numerals
PageParams ==
    {Absent, ArrayParam(<<"2", ",", "3">>)}
    \cup {StringParam(NumberToString(n)) : n \in 0..MaxPage}
    \cup {StringParam(t) : t \in {<<>>, <<"-", "1">>, <<"a">>, <<"2", "a">>, <<" ", "2">>,
                                  <<"+", "2">>, <<"1", ".", "5">>, <<"0", "x", "2">>}}

\* the page parameters sent with a year or a genre
FewPageParams == {Absent, StringParam(<<"2">>), StringParam(<<"-", "1">>)}

\* values of ?sort=
SortParams ==
    {Absent, ArrayParam(<<"d", "e", "s", "c", ",", "a", "s", "c">>)}
    \cup {StringParam(t) : t \in {<<>>, <<"a", "s", "c">>, <<"d", "e", "s", "c">>,
                                  <<"D", "E", "S", "C">>, <<"d", "E", "s", "c">>,
                                  <<"d", "e", "s">>, <<"d", "e", "s", "c", "s">>}}

YearParams == {<<"2", "0", "0", "5">>, <<"x">>}
GenreParams == {g \in GenreArgs : Len(g) <= 1}

HttpNext ==
    \E c \in DOMAIN call :
        \/ \E page \in PageParams : listAllMovies(c, page)
        \/ \E imdbId \in ImdbArgs : getMovieDetailsByImdbIdController(c, imdbId)
        \/ \E year \in YearParams, page \in FewPageParams, sort \in SortParams :
              listMoviesByYear(c, year, page, sort)
        \/ \E genre \in GenreParams, page \in FewPageParams :
              getMoviesByGenreController(c, genre, page)
        \/ getPaginatedMoviesCallback(c)
        \/ getMoviesByYearCallback(c)
        \/ getMoviesByGenreCallback(c)
        \/ movieCallback(c)
        \/ ratingCallback(c)
        \/ listAllMoviesAwaited(c)
        \/ getMovieDetailsByImdbIdAwaited(c)
        \/ listMoviesByYearAwaited(c)
        \/ getMoviesByGenreAwaited(c)

\* requests served one at a time through the controllers
HttpSpec == Init /\ [][HttpNext]_vars

(***************************************************************************)
(* Two invocations of the service in flight at once.                       *)
(***************************************************************************)
ConcurrentCalls == {1, 2}

\* the arguments of the concurrent invocations: rows with different samples,
\* an imdbId no row has, and one page of each list
ConcurrentImdbArgs == {Row(1, "clean").imdbId, Row(2, "clean").imdbId, UnknownImdbId}

ConcurrentNext ==
    \E c \in ConcurrentCalls :
        \/ getPaginatedMovies(c, 1)
        \/ \E imdbId \in ConcurrentImdbArgs : getMovieDetailsByImdbId(c, imdbId)
        \/ getMoviesByYear(c, <<"2", "0", "0", "6">>, 1, "desc")
        \/ getMoviesByGenre(c, <<"a">>, 1)
        \/ getPaginatedMoviesCallback(c)
        \/ getMoviesByYearCallback(c)
        \/ getMoviesByGenreCallback(c)
        \/ movieCallback(c)
        \/ ratingCallback(c)

ConcurrentSpec == InitCalls(ConcurrentCalls) /\ [][ConcurrentNext]_vars

(***************************************************************************)
(* Properties.                                                             *)
(***************************************************************************)
DetailOp == "getMovieDetailsByImdbId"
ListOps == {"getPaginatedMovies", "getMoviesByYear", "getMoviesByGenre"}

Fulfilled(c) == promise[c].state = "fulfilled"

\* the rows of the movies table whose imdbId is the one call c asked for
RowsWithImdbId(c) == {i \in 1..NumRows : movies[i].imdbId = call[c].imdbId}

\* C1: a call sends at most one rating query; it sends it only in
\* getMovieDetailsByImdbId, only after the catalog lookup answered without an
\* error and with a row of the requested imdbId, and keyed by that row's
\* movieId. When the catalog has no such row the call resolves to null, nothing
\* is thrown and no rating query is sent.
C1_RatingQueryOnlyAfterMatch ==
    \A c \in CallIds :
        /\ Len(ratingQueries[c]) <= 1
        /\ ratingQueries[c] # <<>> =>
              /\ call[c].op = DetailOp
              /\ pc[c] \in {"ratingsQuery", "done"}
              /\ \A k \in 1..Len(storeErrors[c]) : storeErrors[c][k].store # "movies"
              /\ \E i \in RowsWithImdbId(c) :
                    ratingQueries[c][1] = [movieId |-> movies[i].movieId]
        /\ (call[c].op = DetailOp /\ RowsWithImdbId(c) = {}) =>
              /\ ratingQueries[c] = <<>>
              /\ uncaught[c] = None
              /\ (pc[c] = "done" /\ storeErrors[c] = <<>>) =>
                    (Fulfilled(c) /\ promise[c].value = JSNull)

\* a rating query is in flight for the row the catalog lookup matched
C1_Witness ==
    \E c \in CallIds :
        /\ pc[c] = "ratingsQuery"
        /\ Len(ratingQueries[c]) = 1
        /\ RowsWithImdbId(c) # {}

\* C2: when a store answers a query of a call with an error, the call's promise
\* is rejected with exactly that error and holds no value; this includes an
\* error of the rating lookup after the catalog row was found.
C2_StoreErrorIsTheRejection ==
    \A c \in CallIds :
        storeErrors[c] # <<>> =>
            /\ Len(storeErrors[c]) = 1
            /\ pc[c] = "done"
            /\ promise[c].state = "rejected"
            /\ promise[c].reason = storeErrors[c][1]
            /\ promise[c].value = None

\* the rating lookup failed after the catalog lookup had matched a row
C2_Witness ==
    \E c \in CallIds :
        /\ call[c].op = DetailOp
        /\ matched[c] # None
        /\ storeErrors[c] # <<>>
        /\ storeErrors[c][1].store = "ratings"
        /\ promise[c].state = "rejected"

\* the rating samples stored for the movie of row i of the movies table
SamplesOfRow(i) == SelectSeq(ratings, LAMBDA s : s.movieId = movies[i].movieId)

DetailFulfilled(c) ==
    call[c].op = DetailOp /\ Fulfilled(c) /\ promise[c].value.t = "obj"

\* C3: the averageRating of a detail result is null exactly when the matched
\* record has no rating sample; with one sample or more it is a number.
C3_NullExactlyWhenNoSamples ==
    \A c \in CallIds :
        DetailFulfilled(c) =>
            \A i \in RowsWithImdbId(c) :
                promise[c].value.v.averageRating.null <=> (SamplesOfRow(i) = <<>>)

\* C4: the averageRating of a detail result for a record with samples is the
\* mean of the samples stored under the record's movieId, rounded to one
\* decimal: a multiple of 0.1 at most 0.05 away from the mean; it is 4.5 for the
\* samples 4, 5 and 4.3 for 4, 4, 5.
C4_MeanRoundedToOneDecimal ==
    \A c \in CallIds :
        DetailFulfilled(c) =>
            \A i \in RowsWithImdbId(c) :
                LET samples == SamplesOfRow(i)
                    n == Len(samples)
                    sum == SumRatings(samples)
                    avg == promise[c].value.v.averageRating
                    diff == sum * avg.v.den - avg.v.num * n
                IN n > 0 =>
                     /\ ~avg.null
                     /\ (10 * avg.v.num) % avg.v.den = 0
                     /\ 20 * (IF diff < 0 THEN -diff ELSE diff) <= n * avg.v.den
                     /\ (samples = <<[movieId |-> movies[i].movieId, rating |-> 4],
                                     [movieId |-> movies[i].movieId, rating |-> 5]>>)
                            => avg.v = Num(45, 10)
                     /\ (n = 3 /\ sum = 13) => avg.v = Num(43, 10)

\* the row of the movies table with the given imdbId
StoredRow(imdbId) == movies[CHOOSE i \in 1..NumRows : movies[i].imdbId = imdbId]

\* the display rule: N/A for no budget, $0 for 0, and for n > 0 a $ followed by
\* the decimal digits of n and nothing else
BudgetRule(b, shown) ==
    IF b.null THEN shown = <<"N", "/", "A">>
    ELSE IF b.v = 0 THEN shown = <<"$", "0">>
    ELSE /\ Len(shown) >= 2
         /\ shown[1] = "$"
         /\ shown[2] # "0"
         /\ \A k \in 2..Len(shown) : shown[k] \in {DigitChars[d] : d \in 1..10}
         /\ ParseDigits(shown, 2, 0) = [value |-> b.v, next |-> Len(shown) + 1]

\* C5: in every result of the four operations the budget of each movie
\* follows the display rule for the budget stored for that movie.
C5_BudgetDisplayRule ==
    \A c \in CallIds :
        Fulfilled(c) =>
            CASE promise[c].value.t = "list" ->
                    \A k \in 1..Len(promise[c].value.v) :
                        LET dto == promise[c].value.v[k]
                        IN BudgetRule(StoredRow(dto.imdbId).budget, dto.budget)
              [] promise[c].value.t = "obj" ->
                    LET dto == promise[c].value.v
                    IN BudgetRule(StoredRow(dto.imdbId).budget, dto.budget)
              [] OTHER -> TRUE

\* a list result that shows a missing budget, a budget of 0 and a positive one
C5_Witness ==
    \E c \in CallIds :
        /\ Fulfilled(c)
        /\ promise[c].value.t = "list"
        /\ \E k \in 1..Len(promise[c].value.v) :
              promise[c].value.v[k].budget = <<"N", "/", "A">>
        /\ \E k \in 1..Len(promise[c].value.v) :
              /\ promise[c].value.v[k].budget = <<"$", "0">>
              /\ StoredRow(promise[c].value.v[k].imdbId).budget = Val(0)
        /\ \E k \in 1..Len(promise[c].value.v) :
              promise[c].value.v[k].budget = <<"$", "1", "0", "0", "0", "0", "0", "0">>

RECURSIVE Stringify(_)
\* the JSON text of a value, written without spaces
Stringify(val) ==
    CASE val.t = "null" -> <<"n", "u", "l", "l">>
      [] val.t = "str" -> <<Q>> \o val.v \o <<Q>>
      [] val.t = "arr" ->
            LET Items[k \in 0..Len(val.v)] ==
                    IF k = 0 THEN <<>>
                    ELSE Items[k - 1] \o (IF k = 1 THEN <<>> ELSE <<",">>) \o Stringify(val.v[k])
            IN <<"[">> \o Items[Len(val.v)] \o <<"]">>

\* a stored text that is the JSON text of an array
IsArrayText(text) ==
    ~text.null /\ ~JSONparse(text).threw /\ JSONparse(text).val.t = "arr"

\* a stored text that is present and is not JSON
IsMalformedText(text) == ~text.null /\ JSONparse(text).threw

\* the rule for a text column shown as an array: always an array, the empty one
\* for NULL, and the array the text denotes for the JSON text of an array
ArrayRule(text, shown) ==
    /\ shown.t = "arr"
    /\ text.null => shown = JSArray(<<>>)
    /\ IsArrayText(text) => Stringify(shown) = text.v

\* C6: in every result of the four operations genres, and productionCompanies
\* in a detail result, is an array: the array the stored JSON text denotes, and
\* the empty array when the stored text is NULL.
C6_TextColumnsShownAsArrays ==
    \A c \in CallIds :
        Fulfilled(c) =>
            CASE promise[c].value.t = "list" ->
                    \A k \in 1..Len(promise[c].value.v) :
                        LET dto == promise[c].value.v[k]
                        IN ArrayRule(StoredRow(dto.imdbId).genres, dto.genres)
              [] promise[c].value.t = "obj" ->
                    LET dto == promise[c].value.v
                    IN /\ ArrayRule(StoredRow(dto.imdbId).genres, dto.genres)
                       /\ ArrayRule(StoredRow(dto.imdbId).productionCompanies,
                                    dto.productionCompanies)
              [] OTHER -> TRUE

\* the store answered call c, without an error, with a row holding a text that
\* is present and is not JSON, in a column the operation parses
AnsweredWithMalformedText(c) ==
    /\ pc[c] = "done"
    /\ storeErrors[c] = <<>>
    /\ IF call[c].op = DetailOp
       THEN /\ matched[c] # None
            /\ \/ IsMalformedText(matched[c].genres)
               \/ IsMalformedText(matched[c].productionCompanies)
       ELSE \E rows \in {RunMovieQuery(movieQueries[c][1], "stable")} :
                \E k \in 1..Len(rows) : IsMalformedText(rows[k].genres)

\* C7: when a row the store answered with holds a genres or productionCompanies
\* text that is present and is not JSON, the operation's promise is rejected
\* with the parse error.
C7_MalformedTextRejects ==
    \A c \in CallIds :
        AnsweredWithMalformedText(c) =>
            promise[c].state = "rejected" /\ promise[c].reason = SyntaxError

Ids(rows) == [k \in 1..Len(rows) |-> rows[k].imdbId]

\* the leading 4 characters of a text
Leading4(t) == SubSeq(t, 1, IF Len(t) < 4 THEN Len(t) ELSE 4)

\* row is one the list operation of call c is to return, page aside
Wanted(c, row) ==
    CASE call[c].op = "getPaginatedMovies" -> TRUE
      [] call[c].op = "getMoviesByYear" ->
            ~row.releaseDate.null /\ Leading4(row.releaseDate.v) = call[c].year
      [] call[c].op = "getMoviesByGenre" ->
            SqlLikeIsTrue(row.genres, <<"%">> \o call[c].genre \o <<"%">>)

NumWanted(c) == Cardinality({i \in 1..NumRows : Wanted(c, movies[i])})

\* C8: a list operation called with page p sends exactly one query, to the
\* catalog, with limit 50 and offset (p - 1) * 50; its result has at most 50
\* items, and when the offset is past the last matching row the result is the
\* empty list and not an error.
C8_OneQueryOfFiftyRows ==
    \A c \in CallIds :
        call[c].op \in ListOps =>
            /\ Len(movieQueries[c]) = 1
            /\ ratingQueries[c] = <<>>
            /\ movieQueries[c][1].limit = 50
            /\ movieQueries[c][1].offset = (call[c].page - 1) * 50
            /\ Fulfilled(c) => Len(promise[c].value.v) <= 50
            /\ (pc[c] = "done" /\ storeErrors[c] = <<>>
                    /\ (call[c].page - 1) * 50 >= NumWanted(c)) =>
                  (Fulfilled(c) /\ promise[c].value = JSList(<<>>))

\* a full page: 50 items of more than 50 matching rows
C8_Witness ==
    \E c \in CallIds :
        /\ call[c].op \in ListOps
        /\ Fulfilled(c)
        /\ Len(promise[c].value.v) = 50
        /\ NumWanted(c) > 50

\* C9: a result of getMoviesByYear holds only records whose release date is
\* present and starts with the year asked for, in ascending order of release
\* date for asc and descending for desc, and in the order the store gave the
\* rows; when no record matches the year the result is the empty list, not an error.
C9_YearFilterAndOrder ==
    \A c \in CallIds :
        call[c].op = "getMoviesByYear" =>
            /\ Fulfilled(c) =>
                  LET v == promise[c].value.v
                  IN /\ \A k \in 1..Len(v) :
                            /\ Wanted(c, StoredRow(v[k].imdbId))
                            /\ v[k].releaseDate = StoredRow(v[k].imdbId).releaseDate
                     /\ \A k \in 1..(Len(v) - 1) :
                            LET cmp == TextCompare(v[k].releaseDate.v, v[k + 1].releaseDate.v, 1)
                            IN IF call[c].sortOrder = "asc" THEN cmp <= 0 ELSE cmp >= 0
                     /\ \E ties \in {"stable", "reversed"} :
                            Ids(v) = Ids(RunMovieQuery(movieQueries[c][1], ties))
            /\ (pc[c] = "done" /\ storeErrors[c] = <<>> /\ NumWanted(c) = 0) =>
                  (Fulfilled(c) /\ promise[c].value = JSList(<<>>))

\* a descending result whose first release date is after its last
C9_Witness ==
    \E c \in CallIds :
        /\ call[c].op = "getMoviesByYear"
        /\ call[c].sortOrder = "desc"
        /\ Fulfilled(c)
        /\ Len(promise[c].value.v) >= 2
        /\ TextCompare(promise[c].value.v[1].releaseDate.v,
                       promise[c].value.v[Len(promise[c].value.v)].releaseDate.v, 1) > 0

\* text t holds g as a substring, character for character
Contains(t, g) ==
    \E s \in 1..(Len(t) - Len(g) + 1) : SubSeq(t, s, s + Len(g) - 1) = g

\* the page of call c, cut from the given rows
PageIds(c, rows) == Ids(LimitOffset(rows, 50, (call[c].page - 1) * 50))

\* C10 as stated: a result of getMoviesByGenre holds exactly the records of the
\* page whose genre text contains genre as a case-sensitive substring, every
\* character of genre matched literally.
C10_CaseSensitiveLiteralSubstring ==
    \A c \in CallIds :
        (call[c].op = "getMoviesByGenre" /\ Fulfilled(c)) =>
            Ids(promise[c].value.v) =
                PageIds(c, SelectSeq(movies, LAMBDA r :
                                ~r.genres.null /\ Contains(r.genres.v, call[c].genre)))

AsciiLower(ch) ==
    CASE ch = "A" -> "a"
      [] ch = "B" -> "b"
      [] ch = "C" -> "c"
      [] ch = "N" -> "n"
      [] OTHER -> ch

\* the piece seg of a genre, free of %, lies in t at position s: an _ of seg
\* stands for any one character, a letter for itself in either case
PieceAt(seg, t, s) ==
    /\ s + Len(seg) - 1 <= Len(t)
    /\ \A k \in 1..Len(seg) :
          seg[k] = "_" \/ AsciiLower(seg[k]) = AsciiLower(t[s + k - 1])

RECURSIVE PiecesFrom(_, _, _)
\* the pieces of g between its % signs lie in t from position from on, in
\* order and without overlap: each piece is taken at its leftmost place
PiecesFrom(g, t, from) ==
    LET cut == IF \E k \in 1..Len(g) : g[k] = "%"
               THEN CHOOSE k \in 1..Len(g) :
                        g[k] = "%" /\ \A j \in 1..(k - 1) : g[j] # "%"
               ELSE Len(g) + 1
        seg == SubSeq(g, 1, cut - 1)
        places == {s \in from..(Len(t) + 1) : PieceAt(seg, t, s)}
    IN /\ places # {}
       /\ cut > Len(g)
             \/ PiecesFrom(SubSeq(g, cut + 1, Len(g)), t,
                           (CHOOSE s \in places : \A s2 \in places : s <= s2) + Len(seg))

\* text t holds g in the sense of LIKE '%g%'
ContainsLike(t, g) == PiecesFrom(g, t, 1)

\* C10, amended: a result of getMoviesByGenre holds exactly the records of the
\* page whose genre text holds genre as a substring when ASCII letters are
\* compared without regard to case, an _ of genre stands for any one
\* character and a % of genre for any run of characters.
C10_LikeSubstring ==
    \A c \in CallIds :
        (call[c].op = "getMoviesByGenre" /\ Fulfilled(c)) =>
            Ids(promise[c].value.v) =
                PageIds(c, SelectSeq(movies, LAMBDA r :
                                ~r.genres.null /\ ContainsLike(r.genres.v, call[c].genre)))

\* a result with a record whose genre text holds the genre asked for only in
\* another letter case
C10_Witness ==
    \E c \in CallIds :
        /\ call[c].op = "getMoviesByGenre"
        /\ Fulfilled(c)
        /\ \A k \in 1..Len(call[c].genre) : call[c].genre[k] \notin {"%", "_"}
        /\ \E k \in 1..Len(promise[c].value.v) :
              ~Contains(StoredRow(promise[c].value.v[k].imdbId).genres.v, call[c].genre)

\* the value carries a field named movieId
ExposesMovieId(value) ==
    CASE value.t = "list" -> \E k \in 1..Len(value.v) : "movieId" \in DOMAIN value.v[k]
      [] value.t = "obj" -> "movieId" \in DOMAIN value.v
      [] OTHER -> FALSE

BodyExposesMovieId(body) ==
    CASE body.t = "page" -> ExposesMovieId(body.movies)
      [] body.t = "error" -> FALSE
      [] OTHER -> ExposesMovieId(body)

\* C11: no value a service operation resolved and no body a controller sent has
\* a movieId field; a row with its movieId is held only by a
\* getMovieDetailsByImdbId call, and the only use made of the movieId is as the
\* key of that call's rating query.
C11_InternalIdNeverLeaves ==
    \A c \in DOMAIN call :
        /\ Fulfilled(c) => ~ExposesMovieId(promise[c].value)
        /\ \A k \in 1..Len(response[c].sent) : ~BodyExposesMovieId(response[c].sent[k].body)
        /\ matched[c] # None => call[c].op = DetailOp
        /\ \A k \in 1..Len(ratingQueries[c]) :
              /\ matched[c] # None
              /\ ratingQueries[c][k] = [movieId |-> matched[c].movieId]

\* a detail request answered with the details of a row that has rating samples,
\* found in the ratings store by the row's movieId
C11_Witness ==
    \E c \in DOMAIN call :
        /\ handler[c] = "returned"
        /\ promise[c].value.t = "obj"
        /\ ratingQueries[c] = <<[movieId |-> matched[c].movieId]>>
        /\ SamplesOfRow(matched[c].movieId - 100) # <<>>
        /\ response[c].sent = <<[status |-> 200, body |-> promise[c].value]>>

DetailController == "getMovieDetailsByImdbId"
ListControllers == {"listAllMovies", "listMoviesByYear", "getMoviesByGenre"}

\* the controller of request c went on after its await and returned
Responded(c) == handler[c] = "returned" /\ call[c].op # "none"

\* C12: when the detail service resolved null, what the detail controller sends
\* first, and so what the client receives, is status 404 with the body
\* {error: 'Movie not found'}; when it resolved a MovieDetails object the
\* controller sends that object, once, and leaves the status at 200.
C12_NullIs404DetailsAreSent ==
    \A c \in DOMAIN call :
        (request[c].controller = DetailController /\ Responded(c) /\ Fulfilled(c)) =>
            IF promise[c].value = JSNull
            THEN /\ response[c].sent # <<>>
                 /\ response[c].sent[1] = [status |-> 404, body |-> ErrorBody("Movie not found")]
            ELSE /\ response[c].sent = <<[status |-> 200, body |-> promise[c].value]>>
                 /\ response[c].statusCode = 200
                 /\ promise[c].value.t = "obj"

\* the detail controller answered a request for an imdbId no row has
C12_Witness ==
    \E c \in DOMAIN call :
        /\ request[c].controller = DetailController
        /\ Responded(c)
        /\ call[c].imdbId = UnknownImdbId
        /\ promise[c].value = JSNull
        /\ response[c].sent[1].status = 404

FixedMessage(name) ==
    CASE name = "listAllMovies" -> "Internal Server Error"
      [] name = "getMovieDetailsByImdbId" -> "Failed to fetch movie details"
      [] name = "listMoviesByYear" -> "Failed to fetch movies by year"
      [] name = "getMoviesByGenre" -> "Failed to fetch movies by genre"

\* C13: when the service call of a controller rejected, the controller sends
\* exactly one body, its fixed error body with status 500, and no error leaves
\* the controller.
C13_RejectionIs500 ==
    \A c \in DOMAIN call :
        (Responded(c) /\ promise[c].state = "rejected") =>
            /\ response[c].sent =
                  <<[status |-> 500, body |-> ErrorBody(FixedMessage(request[c].controller))]>>
            /\ escaped[c] = None
            /\ uncaught[c] = None

\* the detail controller answered after the movies store found the row and the
\* ratings store failed
C13_Witness ==
    \E c \in DOMAIN call :
        /\ Responded(c)
        /\ request[c].controller = DetailController
        /\ promise[c].state = "rejected"
        /\ promise[c].reason.store = "ratings"
        /\ matched[c] # None

\* the text is a decimal numeral: one digit or more and nothing else
IsNumeral(text) ==
    /\ text # <<>>
    /\ \A k \in 1..Len(text) : text[k] \in {"0", "1", "2", "3", "4", "5", "6", "7", "8", "9"}

RECURSIVE NumeralValue(_)
NumeralValue(text) ==
    IF text = <<>> THEN 0
    ELSE 10 * NumeralValue(SubSeq(text, 1, Len(text) - 1))
         + (CHOOSE d \in 0..9 : DigitChars[d + 1] = text[Len(text)])

\* the text has no digit at all
HasNoDigit(text) == \A k \in 1..Len(text) : ~IsNumeral(<<text[k]>>)

\* C14: the page a list controller passes to the service is a positive integer;
\* it is the value of the page parameter when that is a positive decimal
\* numeral, and 1 when the parameter is absent or has no digit in it; a
\* successful response is the one body {page, movies} with that page and the
\* value the service resolved.
C14_PagePositiveAndEchoed ==
    \A c \in DOMAIN call :
        (request[c].controller \in ListControllers /\ call[c].op # "none") =>
            /\ call[c].page >= 1
            /\ (request[c].page.t = "string" /\ IsNumeral(request[c].page.v)
                   /\ NumeralValue(request[c].page.v) > 0)
                  => call[c].page = NumeralValue(request[c].page.v)
            /\ (request[c].page.t = "undefined"
                   \/ (request[c].page.t = "string" /\ HasNoDigit(request[c].page.v)))
                  => call[c].page = 1
            /\ (Responded(c) /\ Fulfilled(c)) =>
                  response[c].sent =
                      <<[status |-> 200, body |-> PageBody(call[c].page, promise[c].value)]>>

\* the text is desc in some mix of upper and lower case
IsDescIgnoringCase(text) ==
    /\ Len(text) = 4
    /\ text[1] \in {"d", "D"}
    /\ text[2] \in {"e", "E"}
    /\ text[3] \in {"s", "S"}
    /\ text[4] \in {"c", "C"}

\* C15: the sort order listMoviesByYear passes to the service is 'asc' or
\* 'desc': 'desc' exactly when the sort parameter is the text desc in any letter
\* case, 'asc' otherwise, and the direction written into ORDER BY is ASC or DESC
\* accordingly; a request whose sort parameter is not a string reaches no query.
C15_SortIsAscOrDesc ==
    \A c \in DOMAIN call :
        request[c].controller = "listMoviesByYear" =>
            IF call[c].op = "none"
            THEN request[c].sort.t = "array" /\ movieQueries[c] = <<>>
            ELSE /\ request[c].sort.t # "array"
                 /\ call[c].sortOrder \in {"asc", "desc"}
                 /\ call[c].sortOrder = "desc" <=>
                       (request[c].sort.t = "string" /\ IsDescIgnoringCase(request[c].sort.v))
                 /\ Len(movieQueries[c]) = 1
                 /\ movieQueries[c][1].dir =
                       (IF call[c].sortOrder = "desc" THEN "DESC" ELSE "ASC")

\* a request with ?sort=DESC was answered with rows
C15_Witness ==
    \E c \in DOMAIN call :
        /\ request[c].controller = "listMoviesByYear"
        /\ request[c].sort = StringParam(<<"D", "E", "S", "C">>)
        /\ call[c].sortOrder = "desc"
        /\ Responded(c)
        /\ Fulfilled(c)
        /\ Len(promise[c].value.v) > 1

\* C16: a controller that called the service and returned has called res.json
\* exactly once and sent exactly one body.
C16_ExactlyOneResponse ==
    \A c \in DOMAIN call :
        Responded(c) => response[c].jsonCalls = 1 /\ Len(response[c].sent) = 1

\* C17: once every store query of an invocation has called back, the promise
\* the invocation returned is fulfilled or rejected.
C17_EveryCallSettles ==
    \A c \in DOMAIN call : pc[c] = "done" => promise[c].state \in {"fulfilled", "rejected"}

\* the values an invocation with arguments a resolves when it runs alone against
\* the stores and no store fails
SoloValues(a) ==
    CASE a.op = "getPaginatedMovies" ->
            {JSList(MapRows([k \in 1..Len(rows) |-> ShapeMovie(rows[k])]).val) :
                rows \in {RunMovieQuery(MovieQuery("listAll", <<>>, "", pageSize,
                                                   Offset(a.page)), "stable")}}
      [] a.op = "getMoviesByYear" ->
            {JSList(MapRows([k \in 1..Len(rows) |-> ShapeRow(rows[k])]).val) :
                rows \in {RunMovieQuery(MovieQuery("byYear", a.year, toUpperCase(a.sortOrder),
                                                   pageSize, Offset(a.page)), ties) :
                             ties \in {"stable", "reversed"}}}
      [] a.op = "getMoviesByGenre" ->
            {JSList(MapRows([k \in 1..Len(rows) |-> ShapeRow(rows[k])]).val) :
                rows \in {RunMovieQuery(MovieQuery("byGenre", genreMatch(a.genre), "",
                                                   pageSize, Offset(a.page)), "stable")}}
      [] a.op = "getMovieDetailsByImdbId" ->
            {IF rows = <<>> THEN JSNull
             ELSE JSObject(BuildDetails(rows[1], RunRatingQuery(RatingQuery(rows[1]))).val) :
                rows \in {RunMovieQuery(MovieQuery("byImdbId", a.imdbId, "", -1, 0), "stable")}}

\* each invocation resolves what it would resolve alone, and the details it
\* resolves carry the average of the samples of its own matched row
OwnResult ==
    \A c \in DOMAIN call :
        Fulfilled(c) =>
            /\ promise[c].value \in SoloValues(call[c])
            /\ promise[c].value.t = "obj" =>
                  /\ matched[c].imdbId = call[c].imdbId
                  /\ promise[c].value.v.imdbId = call[c].imdbId
                  /\ promise[c].value.v.averageRating =
                        AverageRating([averageRating |->
                            SqlAvg(SelectSeq(ratings,
                                             LAMBDA s : s.movieId = matched[c].movieId))])

\* C18: under every interleaving of two invocations and their callbacks, each
\* invocation resolves a value it would resolve if it ran alone against the
\* same stores, the averageRating of a details object is computed from the
\* samples of that invocation's own matched row, and no step changes the movies
\* or the ratings table.
C18_CallsDoNotInterfere ==
    []OwnResult /\ [][movies' = movies /\ ratings' = ratings]_vars

\* invocation 1 resolved the details of one row while invocation 2, for another
\* row with other samples, waits for its rating query
C18_Witness ==
    /\ DOMAIN call = ConcurrentCalls
    /\ pc[1] = "done"
    /\ Fulfilled(1)
    /\ promise[1].value.t = "obj"
    /\ pc[2] = "ratingsQuery"
    /\ matched[2].movieId # matched[1].movieId
    /\ RunRatingQuery(ratingQueries[2][1]) # RunRatingQuery(ratingQueries[1][1])
====
